---- MODULE Spec2Model ----
(***************************************************************************)
(* Resume-ranking pipeline: parsing of LLM responses into criteria and     *)
(* score vectors (llm-processor.py), text extraction through a temporary   *)
(* file (doc-processor.py) and the batch scoring handler (main-code.py).   *)
(*                                                                         *)
(* Text is a sequence of one-character strings.                            *)
(***************************************************************************)
EXTENDS Integers, Sequences, FiniteSets, TLC

VARIABLES
    pc,             \* position of the running call / handler
    response,       \* raw text returned by the completion service
    criteria,       \* criteria list handed to the scorer / the handler
    scores,         \* value returned by score_resume_with_llm
    criteria_list,  \* value returned by extract_criteria_with_llm
    uploads,        \* the uploaded files of the request
    stream_pos,     \* read position of each upload's stream
    temp_files,     \* indices of the uploads whose temporary file is on disk
    extracted,      \* outcome of the last extract_text_from_file call
    idx,            \* index of the resume the batch loop is at
    results,        \* rows collected by the batch loop
    http            \* response of the score_resumes handler

vars == <<pc, response, criteria, scores, criteria_list,
          uploads, stream_pos, temp_files, extracted, idx, results, http>>

llmVars == <<response, criteria, scores, criteria_list>>
fileVars == <<uploads, stream_pos, temp_files, extracted>>
batchVars == <<idx, results, http>>

----------------------------------------------------------------------------
(* Bounds of the model *)

MaxScoreLen == 3        \* longest free-form scoring response, in characters
MaxScoreLines == 3      \* most lines of a scoring response built from ScoreLinePool
MaxCriteria == 2        \* longest criteria list handed to the scorer
MaxCriteriaLen == 4     \* longest free-form criteria response, in characters
MaxCriteriaLines == 2   \* most lines of a criteria response built from CriteriaLinePool
MaxFileSize == 2        \* largest upload, in bytes
MaxFiles == 3           \* most resumes of one batch request

----------------------------------------------------------------------------
(* Python string primitives used by the source *)

Digits == {"0", "3", "7"}

DigitVal(c) == CASE c = "0" -> 0 [] c = "3" -> 3 [] c = "7" -> 7

\* str.isspace for one character
IsSpace(c) == c \in {" ", "\n"}

\* \w of the re module for one character of the alphabets below
IsWordChar(c) == c \in Digits \cup {"a"}

\* s[n:]
Drop(s, n) == SubSeq(s, n + 1, Len(s))

\* s[:n]
Take(s, n) == SubSeq(s, 1, IF n < Len(s) THEN n ELSE Len(s))

RECURSIVE LStrip(_)
LStrip(s) == IF s # <<>> /\ IsSpace(Head(s)) THEN LStrip(Tail(s)) ELSE s

RECURSIVE RStrip(_)
RStrip(s) ==
    IF s # <<>> /\ IsSpace(s[Len(s)]) THEN RStrip(SubSeq(s, 1, Len(s) - 1)) ELSE s

\* str.strip()
Strip(s) == RStrip(LStrip(s))

\* str.startswith(p)
StartsWith(s, p) == Len(s) >= Len(p) /\ SubSeq(s, 1, Len(p)) = p

\* str.find(sep) + 1: position of the first occurrence of sep, 0 when absent
Find(s, sep) ==
    LET at == {i \in 1..(Len(s) - Len(sep) + 1) : SubSeq(s, i, i + Len(sep) - 1) = sep}
    IN  IF at = {} THEN 0 ELSE CHOOSE i \in at : \A j \in at : i <= j

\* sep in s
Contains(s, sep) == Find(s, sep) # 0

\* s.split(sep), sep a non-empty separator
RECURSIVE Split(_, _)
Split(s, sep) ==
    LET i == Find(s, sep)
    IN  IF i = 0 THEN <<s>>
        ELSE <<SubSeq(s, 1, i - 1)>> \o Split(Drop(s, i + Len(sep) - 1), sep)

\* str.isdigit()
IsDigitStr(s) == s # <<>> /\ \A i \in 1..Len(s) : s[i] \in Digits

\* int(s) for a string of digits
RECURSIVE IntOf(_)
IntOf(s) ==
    IF s = <<>> THEN 0
    ELSE 10 * IntOf(SubSeq(s, 1, Len(s) - 1)) + DigitVal(s[Len(s)])

----------------------------------------------------------------------------
(* score_resume_with_llm: parsing of the scoring response *)

\* the separator Strategy C splits on
OrdinalSep(line) == IF Contains(line, <<".", " ">>) THEN <<".", " ">> ELSE <<")", " ">>

\* ScoreLine with the first test reduced to line.isdigit()
ScoreLineUnchecked(raw) ==
    LET line == Strip(raw)
    IN  IF IsDigitStr(line)
        THEN <<IntOf(line)>>
        ELSE IF Contains(line, <<":", " ">>)
                /\ IsDigitStr(Strip(Split(line, <<":", " ">>)[2]))
        THEN LET score == IntOf(Strip(Split(line, <<":", " ">>)[2]))
             IN  IF 0 <= score /\ score <= 5 THEN <<score>> ELSE <<>>
        ELSE IF (Contains(line, <<".", " ">>) \/ Contains(line, <<")", " ">>))
                /\ IsDigitStr(Strip(Split(line, OrdinalSep(line))[2]))
        THEN LET score == IntOf(Strip(Split(line, OrdinalSep(line))[2]))
             IN  IF 0 <= score /\ score <= 5 THEN <<score>> ELSE <<>>
        ELSE <<>>

\* One pass of the loop body: the scores the line appends (none or one)
ScoreLine(raw) ==
    LET line == Strip(raw)
    IN  IF IsDigitStr(line) /\ 0 <= IntOf(line) /\ IntOf(line) <= 5
        THEN <<IntOf(line)>>
        ELSE IF Contains(line, <<":", " ">>)
                /\ IsDigitStr(Strip(Split(line, <<":", " ">>)[2]))
        THEN LET score == IntOf(Strip(Split(line, <<":", " ">>)[2]))
             IN  IF 0 <= score /\ score <= 5 THEN <<score>> ELSE <<>>
        ELSE IF (Contains(line, <<".", " ">>) \/ Contains(line, <<")", " ">>))
                /\ IsDigitStr(Strip(Split(line, OrdinalSep(line))[2]))
        THEN LET score == IntOf(Strip(Split(line, OrdinalSep(line))[2]))
             IN  IF 0 <= score /\ score <= 5 THEN <<score>> ELSE <<>>
        ELSE <<>>

\* The loop over score_text.split('\n')
RECURSIVE LineScoresOf(_)
LineScoresOf(lines) ==
    IF lines = <<>> THEN <<>>
    ELSE ScoreLine(Head(lines)) \o LineScoresOf(Tail(lines))

LineScores(score_text) == LineScoresOf(Split(score_text, <<"\n">>))

\* re.findall(r'\b[0-5]\b', text), as integers, scanning from position i
RECURSIVE FindAllFrom(_, _)
FindAllFrom(text, i) ==
    IF i > Len(text) THEN <<>>
    ELSE IF /\ text[i] \in Digits /\ DigitVal(text[i]) <= 5
            /\ (i = 1 \/ ~IsWordChar(text[i - 1]))
            /\ (i = Len(text) \/ ~IsWordChar(text[i + 1]))
         THEN <<DigitVal(text[i])>> \o FindAllFrom(text, i + 1)
         ELSE FindAllFrom(text, i + 1)

FindAllDigits(text) == FindAllFrom(text, 1)

\* NeedsFallback with "<=" for "!="
NeedsFallbackUpTo(line_scores, n) == line_scores = <<>> \/ Len(line_scores) <= n

\* NeedsFallback reduced to "if not scores"
NeedsFallbackWhenEmpty(line_scores, n) == line_scores = <<>>

\* "if not scores or len(scores) != len(criteria)"
NeedsFallback(line_scores, n) == line_scores = <<>> \/ Len(line_scores) # n

\* Fallback without "scores = []"
FallbackKeepingLineScores(line_scores, score_text, n) ==
    Take(line_scores \o FindAllDigits(score_text), n)

\* the flexible approach: scores = [] and then the first n digits found
Fallback(line_scores, score_text, n) == Take(FindAllDigits(score_text), n)

\* "while len(scores) < len(criteria): scores.append(0)"
RECURSIVE PadZeros(_, _)
PadZeros(s, n) == IF Len(s) < n THEN PadZeros(Append(s, 0), n) ELSE s

ParseScores(score_text, n) ==
    LET line_scores == LineScores(score_text)
        parsed == IF NeedsFallback(line_scores, n)
                  THEN Fallback(line_scores, score_text, n)
                  ELSE line_scores
    IN  Take(PadZeros(parsed, n), n)

score_resume_with_llm(text, crit) == ParseScores(Strip(text), Len(crit))

----------------------------------------------------------------------------
(* extract_criteria_with_llm: parsing of the criteria response *)

\* "U+2022" and "U+00B7" stand for the one-character bullet and middle dot
BulletMarkers == { <<"-", " ">>, <<"U+2022", " ">>, <<"*", " ">>, <<"U+00B7", " ">> }

NumberMarkers ==
    { <<"1", ".", " ">>, <<"2", ".", " ">>, <<"3", ".", " ">>, <<"4", ".", " ">>,
      <<"5", ".", " ">>, <<"6", ".", " ">>, <<"7", ".", " ">>, <<"8", ".", " ">>,
      <<"9", ".", " ">>, <<"1", "0", ".", " ">> }

HeadingMarkers == { <<"#">>, <<"#", "#">>, <<"#", "#", "#">> }

\* str.startswith(tuple of prefixes)
StartsWithAny(s, prefixes) == \E p \in prefixes : StartsWith(s, p)

\* CleanLine without the trim that follows the removal of a numeric marker
CleanLineUntrimmed(raw) ==
    LET cleaned_line == Strip(raw)
    IN  IF StartsWithAny(cleaned_line, BulletMarkers) THEN Strip(Drop(cleaned_line, 2))
        ELSE IF StartsWithAny(cleaned_line, NumberMarkers) THEN Drop(cleaned_line, 3)
        ELSE cleaned_line

\* the line with its bullet or numbering removed
CleanLine(raw) ==
    LET cleaned_line == Strip(raw)
    IN  IF StartsWithAny(cleaned_line, BulletMarkers) THEN Strip(Drop(cleaned_line, 2))
        ELSE IF StartsWithAny(cleaned_line, NumberMarkers) THEN Strip(Drop(cleaned_line, 3))
        ELSE cleaned_line

\* KeepsLine without the test for heading markers
KeepsNonEmptyLine(cleaned_line) == cleaned_line # <<>>

\* "if cleaned_line and not cleaned_line.startswith(('#', '##', '###'))"
KeepsLine(cleaned_line) ==
    cleaned_line # <<>> /\ ~StartsWithAny(cleaned_line, HeadingMarkers)

\* The loop over criteria_text.split('\n')
RECURSIVE CriteriaOf(_)
CriteriaOf(lines) ==
    IF lines = <<>> THEN <<>>
    ELSE (IF KeepsLine(CleanLine(Head(lines))) THEN <<CleanLine(Head(lines))>> ELSE <<>>)
         \o CriteriaOf(Tail(lines))

extract_criteria_with_llm(text) == CriteriaOf(Split(Strip(text), <<"\n">>))

----------------------------------------------------------------------------
(* extract_text_from_file: text extraction through a temporary file *)

\* str.lower() for one character
Lower(c) ==
    CASE c = "P" -> "p" [] c = "D" -> "d" [] c = "F" -> "f"
      [] c = "O" -> "o" [] c = "C" -> "c" [] c = "X" -> "x" [] OTHER -> c

LowerStr(s) == [i \in 1..Len(s) |-> Lower(s[i])]

\* position of the last "." of a file name, 0 when there is none
LastDot(name) ==
    LET dots == {i \in 1..Len(name) : name[i] = "."}
    IN  IF dots = {} THEN 0 ELSE CHOOSE i \in dots : \A j \in dots : j <= i

\* os.path.splitext(name) for a name without directory separators: a dot
\* that only leading dots precede starts no extension
SplitExt(name) ==
    LET i == LastDot(name)
    IN  IF i = 0 \/ \A j \in 1..(i - 1) : name[j] = "."
        THEN [root |-> name, ext |-> <<>>]
        ELSE [root |-> SubSeq(name, 1, i - 1), ext |-> SubSeq(name, i, Len(name))]

PdfExt == <<".", "p", "d", "f">>
DocxExt == <<".", "d", "o", "c", "x">>

\* longest file name the file system holds
NameMax == 255

\* length of the "tmp" prefix and the random part of a temporary file's name
TempStemLen == 11

\* "x*300" stands for a run of 300 characters "x"
LongRun == "x*300"

\* len(s) in characters
RECURSIVE CharLen(_)
CharLen(s) ==
    IF s = <<>> THEN 0
    ELSE (IF Head(s) = LongRun THEN 300 ELSE 1) + CharLen(Tail(s))

\* tempfile.NamedTemporaryFile(delete=False, suffix=file_ext) creates the file
\* unless the name is too long for the file system
TempFileCreated(file_ext) == TempStemLen + CharLen(file_ext) <= NameMax

\* extract_text_from_pdf: every page's text followed by a newline
RECURSIVE extract_text_from_pdf(_)
extract_text_from_pdf(pages) ==
    IF pages = <<>> THEN <<>>
    ELSE <<Head(pages), "\n">> \o extract_text_from_pdf(Tail(pages))

\* extract_text_from_docx: the paragraphs, then the cells of the tables
extract_text_from_docx(paragraphs, cells) ==
    extract_text_from_pdf(paragraphs) \o extract_text_from_pdf(cells)

\* The try block: the text by file type, or the exception it leaves by
ExtractByType(file, file_ext) ==
    IF file_ext = PdfExt
    THEN IF file.kind = "pdf"
         THEN [status |-> "returned", error |-> "", text |-> extract_text_from_pdf(file.parts)]
         ELSE [status |-> "raised", error |-> "PdfReadError", text |-> <<>>]
    ELSE IF file_ext = DocxExt
    THEN IF file.kind = "docx"
         THEN [status |-> "returned", error |-> "",
               text |-> extract_text_from_docx(file.parts, file.cells)]
         ELSE [status |-> "raised", error |-> "PackageNotFoundError", text |-> <<>>]
    ELSE [status |-> "raised", error |-> "ValueError", text |-> <<>>]

\* file_ext of an upload
FileExt(file) == LowerStr(SplitExt(file.filename).ext)

\* "content = await file.read()": the stream is read to its end
ReadUpload ==
    /\ pc = "extract_read"
    /\ stream_pos' = [stream_pos EXCEPT ![idx] = uploads[idx].size]
    /\ extracted' = [status |-> "running", error |-> "", text |-> <<>>]
    /\ pc' = "extract_create"
    /\ UNCHANGED <<llmVars, uploads, temp_files, batchVars>>

\* the temporary file is created
CreateTemp ==
    /\ pc = "extract_create"
    /\ TempFileCreated(FileExt(uploads[idx]))
    /\ temp_files' = temp_files \cup {idx}
    /\ pc' = "extract_write"
    /\ UNCHANGED <<llmVars, uploads, stream_pos, extracted, batchVars>>

\* the creation raises, ahead of the try block: the call is left at once
CreateTempRaises ==
    /\ pc = "extract_create"
    /\ ~TempFileCreated(FileExt(uploads[idx]))
    /\ extracted' = [status |-> "raised", error |-> "OSError", text |-> <<>>]
    /\ pc' = "extract_raised"
    /\ UNCHANGED <<llmVars, uploads, stream_pos, temp_files, batchVars>>

\* "temp_file.write(content)" and the end of the with block
WriteTemp ==
    /\ pc = "extract_write"
    /\ pc' = "extract_try"
    /\ UNCHANGED <<llmVars, fileVars, batchVars>>

\* the write raises (no space left), ahead of the try block: the with block
\* closes the file, which delete=False keeps on disk
WriteTempRaises ==
    /\ pc = "extract_write"
    /\ uploads[idx].size > 0
    /\ extracted' = [status |-> "raised", error |-> "OSError", text |-> <<>>]
    /\ pc' = "extract_raised"
    /\ UNCHANGED <<llmVars, uploads, stream_pos, temp_files, batchVars>>

\* the try block: the result or the exception is pending while finally runs
TryExtract ==
    /\ pc = "extract_try"
    /\ extracted' = ExtractByType(uploads[idx], FileExt(uploads[idx]))
    /\ pc' = "extract_finally"
    /\ UNCHANGED <<llmVars, uploads, stream_pos, temp_files, batchVars>>

\* the finally block, then the pending return or raise
FinallyCleanup ==
    /\ pc = "extract_finally"
    /\ temp_files' = temp_files \ {idx}
    /\ stream_pos' = [stream_pos EXCEPT ![idx] = 0]
    /\ pc' = IF extracted.status = "returned" THEN "extract_returned" ELSE "extract_raised"
    /\ UNCHANGED <<llmVars, uploads, extracted, batchVars>>

----------------------------------------------------------------------------
(* score_resumes: the batch handler *)

\* str.split() without arguments: the words between runs of whitespace
RECURSIVE Words(_)
Words(s) ==
    LET t == LStrip(s)
        ends == {i \in 1..Len(t) : IsSpace(t[i])}
        e == IF ends = {} THEN Len(t) + 1 ELSE CHOOSE i \in ends : \A j \in ends : i <= j
    IN  IF t = <<>> THEN <<>>
        ELSE <<SubSeq(t, 1, e - 1)>> \o Words(Drop(t, e - 1))

\* ' '.join(words)
RECURSIVE JoinSpace(_)
JoinSpace(words) ==
    IF words = <<>> THEN <<>>
    ELSE IF Len(words) = 1 THEN Head(words)
    ELSE Head(words) \o <<" ">> \o JoinSpace(Tail(words))

\* ' '.join(criterion.split()[:3]) + "..."
ShortCriterion(criterion) == JoinSpace(Take(Words(criterion), 3)) \o <<".", ".", ".">>

\* sum(scores)
RECURSIVE Sum(_)
Sum(s) == IF s = <<>> THEN 0 ELSE Head(s) + Sum(Tail(s))

\* d[key] = value on the dict d, a function of its keys
DictSet(d, key, value) ==
    [k \in DOMAIN d \cup {key} |-> IF k = key THEN value ELSE d[k]]

EmptyDict == [k \in {} |-> 0]

\* the loop "for i, criterion in enumerate(criteria)" from index i on
RECURSIVE CriterionColumns(_, _, _, _)
CriterionColumns(d, crit, row_scores, i) ==
    IF i > Len(crit) THEN d
    ELSE CriterionColumns(DictSet(d, ShortCriterion(crit[i]), row_scores[i]), crit, row_scores, i + 1)

\* candidate_result; its keys "Candidate Name" and "Total Score" are the
\* fields name and total (no short criterion, which ends in "...", equals them)
CandidateRow(file, crit, row_scores) ==
    [ name  |-> SplitExt(file.filename).root,
      cols  |-> CriterionColumns(EmptyDict, crit, row_scores, 1),
      total |-> Sum(row_scores) ]

\* InsertRow that puts row before the rows of the same total
RECURSIVE InsertRowBeforeTies(_, _)
InsertRowBeforeTies(sorted, row) ==
    IF sorted # <<>> /\ Head(sorted).total > row.total
    THEN <<Head(sorted)>> \o InsertRowBeforeTies(Tail(sorted), row)
    ELSE <<row>> \o sorted

\* row goes behind the rows of the sorted list whose total is not smaller
RECURSIVE InsertRow(_, _)
InsertRow(sorted, row) ==
    IF sorted # <<>> /\ Head(sorted).total >= row.total
    THEN <<Head(sorted)>> \o InsertRow(Tail(sorted), row)
    ELSE <<row>> \o sorted

\* sorted(results, key=lambda x: x["Total Score"], reverse=True)
RECURSIVE SortedByTotal(_)
SortedByTotal(rows) ==
    IF rows = <<>> THEN <<>>
    ELSE InsertRow(SortedByTotal(SubSeq(rows, 1, Len(rows) - 1)), rows[Len(rows)])

\* "file_ext not in allowed_extensions"
AllowedType(file) == LowerStr(SplitExt(file.filename).ext) \in {PdfExt, DocxExt}

----------------------------------------------------------------------------
(* Values of the variables a model leaves unused *)

NoScores == <<9>>

NoCriteria == << <<"?">> >>

NoOutcome == [status |-> "none", error |-> "", text |-> <<>>]

NoResponse == [status |-> 0, rows |-> <<>>, detail |-> ""]

NoLLM == response = <<>> /\ criteria = <<>> /\ scores = NoScores /\ criteria_list = NoCriteria

NoFiles == uploads = <<>> /\ stream_pos = <<>> /\ temp_files = {} /\ extracted = NoOutcome

NoBatch == idx = 0 /\ results = <<>> /\ http = NoResponse

----------------------------------------------------------------------------
(* Inputs of the scoring model *)

ScoreAlphabet == {"0", "3", "7", ":", ".", ")", " ", "a", "\n"}

RECURSIVE TextsUpTo(_, _)
TextsUpTo(alphabet, n) ==
    IF n = 0 THEN {<<>>}
    ELSE LET shorter == TextsUpTo(alphabet, n - 1)
         IN  shorter \cup {Append(t, c) : t \in {u \in shorter : Len(u) = n - 1}, c \in alphabet}

\* lines in the shapes a completion service answers with
ScoreLinePool ==
    { <<"3">>, <<"0">>, <<"7">>, <<"0", "3">>, <<" ", "3", " ">>,
      <<"a", ":", " ", "3">>, <<"3", ":", " ", "0">>, <<"a", ":", " ", "7">>,
      <<"3", ".", " ", "0">>, <<"0", ")", " ", "3">>, <<"a", " ", "3">>,
      <<"a", ":", " ", "3", ":", " ", "a">> }

\* "\n".join(lines) for the line sequences of at most n lines of the pool
RECURSIVE JoinedLines(_, _)
JoinedLines(pool, n) ==
    IF n = 0 THEN {<<>>}
    ELSE pool \cup {l \o <<"\n">> \o t : l \in pool, t \in JoinedLines(pool, n - 1) \ {<<>>}}
              \cup {<<>>}

ScoreResponses ==
    TextsUpTo(ScoreAlphabet, MaxScoreLen) \cup JoinedLines(ScoreLinePool, MaxScoreLines)

CriterionPool == <<"c1", "c2", "c3", "c4">>

CriteriaLists == {SubSeq(CriterionPool, 1, n) : n \in 0..MaxCriteria}

InitScore ==
    /\ pc = "score_call"
    /\ response = <<>>
    /\ criteria \in CriteriaLists
    /\ scores = NoScores
    /\ criteria_list = NoCriteria
    /\ NoFiles /\ NoBatch

\* the completion service answers with some text, which is parsed and returned
ScoreResume ==
    /\ pc = "score_call"
    /\ \E text \in ScoreResponses :
          /\ response' = text
          /\ scores' = score_resume_with_llm(text, criteria)
    /\ pc' = "score_returned"
    /\ UNCHANGED <<criteria, criteria_list, fileVars, batchVars>>

\* the completion service raises: the exception leaves the function
ScoreLLMRaises ==
    /\ pc = "score_call"
    /\ pc' = "score_raised"
    /\ UNCHANGED <<llmVars, fileVars, batchVars>>

NextScore == ScoreResume \/ ScoreLLMRaises

SpecScore == InitScore /\ [][NextScore]_vars

----------------------------------------------------------------------------
(* Inputs of the criteria model *)

CriteriaAlphabet == {"-", "1", "0", ".", " ", "#", "a", "\n"}

\* lines in the shapes a completion service answers with
CriteriaLinePool ==
    { <<"-", " ", "a">>, <<"*", " ", "b">>, <<"U+2022", " ", "a">>, <<"U+00B7", " ", "b">>,
      <<"1", ".", " ", "a">>, <<"2", ".", " ", "b">>, <<"1", "0", ".", " ", "a">>,
      <<"1", "1", ".", " ", "a">>, <<"#", "#", " ", "a">>, <<"-", " ", "#", "a">>,
      <<"-", " ", "1", ".", " ", "a">>, <<"a">>, <<"a", " ", "b">>, <<" ", "b", " ">>,
      <<"-", "a">>, <<"1", ".", "5", " ", "a">>, <<"9", ".", " ", " ", "#">> }

CriteriaResponses ==
    TextsUpTo(CriteriaAlphabet, MaxCriteriaLen)
        \cup JoinedLines(CriteriaLinePool, MaxCriteriaLines)

InitCriteria ==
    /\ pc = "criteria_call"
    /\ response = <<>>
    /\ criteria = <<>>
    /\ scores = NoScores
    /\ criteria_list = NoCriteria
    /\ NoFiles /\ NoBatch

\* the completion service answers with some text, which is parsed and returned
ExtractCriteria ==
    /\ pc = "criteria_call"
    /\ \E text \in CriteriaResponses :
          /\ response' = text
          /\ criteria_list' = extract_criteria_with_llm(text)
    /\ pc' = "criteria_returned"
    /\ UNCHANGED <<criteria, scores, fileVars, batchVars>>

\* the completion service raises: the exception leaves the function
CriteriaLLMRaises ==
    /\ pc = "criteria_call"
    /\ pc' = "criteria_raised"
    /\ UNCHANGED <<llmVars, fileVars, batchVars>>

NextCriteria == ExtractCriteria \/ CriteriaLLMRaises

SpecCriteria == InitCriteria /\ [][NextCriteria]_vars

----------------------------------------------------------------------------
(* The extraction model: one call of extract_text_from_file on one upload *)

\* a name whose extension is longer than a file name may be
LongName == <<"g", ".", LongRun>>

FileNames ==
    { <<"a", ".", "p", "d", "f">>, <<"b", ".", "d", "o", "c", "x">>,
      <<"c", ".", "P", "D", "F">>, <<"d", ".", "t", "x", "t">>, <<"e">>,
      <<".", "p", "d", "f">>, LongName }

Documents ==
    { [kind |-> "pdf", parts |-> <<"p1">>, cells |-> <<>>],
      [kind |-> "pdf", parts |-> <<"p1", "", "p3">>, cells |-> <<>>],
      [kind |-> "docx", parts |-> <<"q1", "q2">>, cells |-> <<"t1">>],
      [kind |-> "docx", parts |-> <<>>, cells |-> <<"t1", "t2">>],
      [kind |-> "garbage", parts |-> <<>>, cells |-> <<>>] }

Upload(name, doc, size) ==
    [filename |-> name, kind |-> doc.kind, parts |-> doc.parts, cells |-> doc.cells, size |-> size]

ExtractFiles ==
    {Upload(n, d, z) : n \in FileNames, d \in Documents, z \in 1..MaxFileSize}
        \cup {Upload(n, [kind |-> "garbage", parts |-> <<>>, cells |-> <<>>], 0) : n \in FileNames}

InitExtract ==
    /\ pc = "extract_read"
    /\ uploads \in {<<f>> : f \in ExtractFiles}
    /\ stream_pos = <<0>>
    /\ temp_files = {}
    /\ extracted = NoOutcome
    /\ NoLLM
    /\ idx = 1 /\ results = <<>> /\ http = NoResponse

NextExtract ==
    \/ ReadUpload \/ CreateTemp \/ CreateTempRaises \/ WriteTemp \/ WriteTempRaises
    \/ TryExtract \/ FinallyCleanup

SpecExtract == InitExtract /\ [][NextExtract]_vars

----------------------------------------------------------------------------
(* The batch model: one request to score_resumes *)

BatchFilePool ==
    { Upload(<<"a", ".", "p", "d", "f">>, [kind |-> "pdf", parts |-> <<"p1">>, cells |-> <<>>], 1),
      Upload(<<"b", ".", "D", "O", "C", "X">>, [kind |-> "docx", parts |-> <<"q1">>, cells |-> <<>>], 1),
      Upload(<<"c", ".", "p", "d", "f">>, [kind |-> "garbage", parts |-> <<>>, cells |-> <<>>], 1),
      Upload(<<"d", ".", "t", "x", "t">>, [kind |-> "garbage", parts |-> <<>>, cells |-> <<>>], 1) }

RECURSIVE UploadLists(_)
UploadLists(n) ==
    IF n = 0 THEN {<<>>}
    ELSE LET shorter == UploadLists(n - 1)
         IN  shorter \cup {Append(l, f) : l \in {u \in shorter : Len(u) = n - 1}, f \in BatchFilePool}

BatchCriteria ==
    { <<>>,
      << <<"a", " ", "b", " ", "c", " ", "d">> >>,
      << <<"a", " ", "b", " ", "c", " ", "d">>, <<"b", " ", " ", "c">> >>,
      << <<"a", " ", "b", " ", "c", " ", "d">>, <<"a", " ", "b", " ", "c", " ", "e">> >> }

BatchResponses ==
    { <<"3", "\n", "3">>, <<"3", "\n", "0">>, <<"0", "\n", "3">>, <<"a", ":", " ", "3">> }

InitBatch ==
    /\ pc = "batch_call"
    /\ criteria \in BatchCriteria
    /\ uploads \in UploadLists(MaxFiles)
    /\ stream_pos = [i \in 1..Len(uploads) |-> 0]
    /\ temp_files = {}
    /\ extracted = NoOutcome
    /\ response = <<>> /\ scores = NoScores /\ criteria_list = NoCriteria
    /\ NoBatch

Reject(detail) ==
    /\ http' = [status |-> 400, rows |-> <<>>, detail |-> detail]
    /\ pc' = "batch_done"
    /\ UNCHANGED <<llmVars, fileVars, idx, results>>

RejectNoCriteria ==
    /\ pc = "batch_call"
    /\ criteria = <<>>
    /\ Reject("No criteria provided")

RejectNoFiles ==
    /\ pc = "batch_call"
    /\ criteria # <<>>
    /\ uploads = <<>>
    /\ Reject("No resume files provided")

RejectFileType ==
    /\ pc = "batch_call"
    /\ criteria # <<>>
    /\ uploads # <<>>
    /\ \E i \in 1..Len(uploads) : ~AllowedType(uploads[i])
    /\ Reject("Invalid file type")

BeginBatch ==
    /\ pc = "batch_call"
    /\ criteria # <<>>
    /\ uploads # <<>>
    /\ \A i \in 1..Len(uploads) : AllowedType(uploads[i])
    /\ idx' = 1
    /\ results' = <<>>
    /\ pc' = "batch_loop"
    /\ UNCHANGED <<llmVars, fileVars, http>>

\* "except Exception as e: raise HTTPException(status_code=500, ...)"
Fail(error) ==
    /\ http' = [status |-> 500, rows |-> <<>>, detail |-> error]
    /\ pc' = "batch_done"

\* one pass of the loop begins: extract_text_from_file is called on the resume
StartResume ==
    /\ pc = "batch_loop"
    /\ idx <= Len(uploads)
    /\ pc' = "extract_read"
    /\ UNCHANGED <<llmVars, fileVars, batchVars>>

\* the text is back: the completion service answers, the scores are parsed
\* and the row is appended
ResumeScored ==
    /\ pc = "extract_returned"
    /\ \E text \in BatchResponses :
          /\ response' = text
          /\ scores' = score_resume_with_llm(text, criteria)
          /\ results' = Append(results, CandidateRow(uploads[idx], criteria, scores'))
    /\ idx' = idx + 1
    /\ pc' = "batch_loop"
    /\ UNCHANGED <<criteria, criteria_list, fileVars, http>>

\* extract_text_from_file raised
ExtractionRaises ==
    /\ pc = "extract_raised"
    /\ Fail(extracted.error)
    /\ UNCHANGED <<llmVars, fileVars, idx, results>>

\* the completion service raises in score_resume_with_llm
ScoringRaises ==
    /\ pc = "extract_returned"
    /\ Fail("ServiceError")
    /\ UNCHANGED <<llmVars, fileVars, idx, results>>

\* after the loop: the rows are sorted and returned as the report
Respond ==
    /\ pc = "batch_loop"
    /\ idx > Len(uploads)
    /\ http' = [status |-> 200, rows |-> SortedByTotal(results), detail |-> ""]
    /\ pc' = "batch_done"
    /\ UNCHANGED <<llmVars, fileVars, idx, results>>

\* every step of extract_text_from_file runs inside the loop of the handler,
\* the failing write included: its exception reaches the except clause of the
\* handler with the temporary file left and the stream at its end.
\* CreateTempRaises has no place here: past the file type check the suffix is
\* ".pdf" or ".docx", for which TempFileCreated holds.
NextBatch ==
    \/ RejectNoCriteria \/ RejectNoFiles \/ RejectFileType \/ BeginBatch
    \/ StartResume
    \/ ReadUpload \/ CreateTemp \/ WriteTemp \/ WriteTempRaises
    \/ TryExtract \/ FinallyCleanup
    \/ ResumeScored \/ ExtractionRaises \/ ScoringRaises \/ Respond

SpecBatch == InitBatch /\ [][NextBatch]_vars

----------------------------------------------------------------------------
(* Properties of score_resume_with_llm *)

N == Len(criteria)

Returned == pc = "score_returned"

\* the scores of the lines that, trimmed, are exactly one digit in 0..5
RECURSIVE SingleDigitScores(_)
SingleDigitScores(lines) ==
    IF lines = <<>> THEN <<>>
    ELSE LET line == Strip(Head(lines))
         IN  (IF Len(line) = 1 /\ line[1] \in {"0", "3"} THEN <<DigitVal(line[1])>> ELSE <<>>)
             \o SingleDigitScores(Tail(lines))

StrategyA == SingleDigitScores(Split(Strip(response), <<"\n">>))

\* the scores of all lines that pass one of the three line tests
StrategyABC == LineScores(Strip(response))

\* the standalone digits 0..5 of the whole response, left to right
StrategyD == FindAllDigits(response)

\* every numeral of the response is one digit long
OneDigitNumerals ==
    \A i \in 1..(Len(response) - 1) : ~(response[i] \in Digits /\ response[i + 1] \in Digits)

\* C1: the returned vector has exactly one entry per criterion and every
\* entry is an integer in 0..5, whatever the response text was.
C1_LengthAndRange ==
    Returned => /\ Len(scores) = N
                /\ \A i \in 1..Len(scores) : scores[i] \in 0..5

\* a response with an out-of-range digit on a line of its own, parsed by the
\* fallback and padded
C1_Witness ==
    /\ Returned /\ N = 2
    /\ \E k \in 1..Len(Split(response, <<"\n">>)) : Strip(Split(response, <<"\n">>)[k]) = <<"7">>
    /\ Len(StrategyD) = 1
    /\ scores = <<3, 0>>

\* C2 as stated: when the single-digit lines number exactly N the result is
\* that sequence, whatever other lines the response holds.
C2_StrategyAPrecedence ==
    (Returned /\ OneDigitNumerals /\ Len(StrategyA) = N) => scores = StrategyA

\* C2 amended: when the single-digit lines number exactly N and no other line
\* passes a line test, the result is the sequence of the single-digit lines,
\* even when the response holds other standalone digits.
C2_StrategyAPrecedenceAlone ==
    LET single == StrategyA
    IN  (Returned /\ Len(single) = N /\ Len(StrategyABC) = N) => scores = single

\* the line parse wins over a different set of standalone digits
C2_Witness ==
    /\ Returned /\ N = 1
    /\ Len(StrategyA) = N /\ Len(StrategyABC) = N
    /\ Take(StrategyD, N) # StrategyA
    /\ scores = StrategyA

\* the text of a line after the first occurrence of sep, trimmed
AfterSeparator(line, sep) == Strip(Drop(line, Find(line, sep) + Len(sep) - 1))

\* a text that is exactly one digit in 0..5
IsScoreDigit(s) == Len(s) = 1 /\ s[1] \in {"0", "3"}

\* Strategies A-C as worded: the line is exactly one digit in 0..5 (A), or the
\* text after its ": " separator is (B), or the text after its ". " or ") "
\* separator is (C); the score is then the digit the line ends with
WordedLineScore(raw) ==
    LET line == Strip(raw)
    IN  IF \/ IsScoreDigit(line)
           \/ \E sep \in {<<":", " ">>, <<".", " ">>, <<")", " ">>} :
                  Contains(line, sep) /\ IsScoreDigit(AfterSeparator(line, sep))
        THEN <<DigitVal(line[Len(line)])>>
        ELSE <<>>

RECURSIVE WordedLineScoresOf(_)
WordedLineScoresOf(lines) ==
    IF lines = <<>> THEN <<>>
    ELSE WordedLineScore(Head(lines)) \o WordedLineScoresOf(Tail(lines))

\* the scores of the lines that qualify under Strategies A-C as worded
StrategyABCWorded == WordedLineScoresOf(Split(Strip(response), <<"\n">>))

\* C5 as stated: when Strategies A-C, a line or the text after its separator
\* being exactly one digit in 0..5, do not yield exactly N scores, the result
\* is the first min(k, N) standalone digits 0..5 of the whole response in
\* order of appearance, followed by zeros up to length N.
C5_FallbackWhenStrategiesMiss ==
    (Returned /\ Len(StrategyABCWorded) # N) => scores = PadZeros(Take(StrategyD, N), N)

\* C5 amended: when the line tests of the parser, which take any all-digit
\* text of value 0..5 such as "03" for a score and read the text between the
\* first and the second separator of a line, do not yield exactly N scores,
\* the result is the first min(k, N) standalone digits 0..5 of the whole
\* response in order of appearance, followed by zeros up to length N.
C5_FallbackAndPadding ==
    LET found == Take(StrategyD, N)
    IN  (Returned /\ Len(StrategyABC) # N) =>
            /\ SubSeq(scores, 1, Len(found)) = found
            /\ \A i \in (Len(found) + 1)..N : scores[i] = 0
            /\ Len(scores) = N

\* no line passes a line test and the two digits found are taken in order
C5_Witness ==
    /\ Returned /\ N = 2
    /\ StrategyABC = <<>>
    /\ StrategyD = <<3, 0>>
    /\ scores = <<3, 0>>

\* C6 as stated: when more than N lines pass a line test, the result is the
\* first N of the line scores.
C6_TruncatesLineScores ==
    (Returned /\ OneDigitNumerals /\ Len(StrategyABC) > N) => scores = Take(StrategyABC, N)

\* C6 amended: when more than N lines pass a line test, the line scores are
\* discarded and the result is the first N standalone digits 0..5 of the whole
\* response (zero-padded when there are fewer); it is the first N line scores
\* whenever the standalone digits of the response are exactly the line scores.
C6_TruncatesStandaloneDigits ==
    LET line_scores == StrategyABC
        found == StrategyD
    IN  (Returned /\ Len(line_scores) > N) =>
            /\ scores = PadZeros(Take(found, N), N)
            /\ (found = line_scores => scores = Take(line_scores, N))

\* three qualifying lines for two criteria
C6_Witness ==
    /\ Returned /\ N = 2
    /\ StrategyABC = <<3, 0, 3>>
    /\ StrategyD = StrategyABC
    /\ scores = <<3, 0>>

----------------------------------------------------------------------------
(* Properties of extract_criteria_with_llm *)

CriteriaReturned == pc = "criteria_returned"

\* the marker a trimmed line starts with: a bullet if there is one, otherwise
\* a numeric marker if there is one, otherwise nothing
LeadingMarker(t) ==
    IF StartsWithAny(t, BulletMarkers) THEN CHOOSE m \in BulletMarkers : StartsWith(t, m)
    ELSE IF StartsWithAny(t, NumberMarkers) THEN CHOOSE m \in NumberMarkers : StartsWith(t, m)
    ELSE <<>>

\* the trimmed remainder of a line after its leading marker
Remainder(raw) == Strip(SubSeq(Strip(raw), Len(LeadingMarker(Strip(raw))) + 1, Len(Strip(raw))))

RECURSIVE ExpectedCriteria(_)
ExpectedCriteria(lines) ==
    IF lines = <<>> THEN <<>>
    ELSE (IF Remainder(Head(lines)) = <<>> \/ Head(Remainder(Head(lines))) = "#"
          THEN <<>> ELSE <<Remainder(Head(lines))>>)
         \o ExpectedCriteria(Tail(lines))

\* C7: each response line is trimmed, loses one leading bullet marker or else
\* one leading numeric marker 1..10, is dropped when the trimmed remainder is
\* empty or starts with '#', and otherwise yields the trimmed remainder; the
\* criteria keep the order of their lines.
C7_LinesToCriteria ==
    CriteriaReturned => criteria_list = ExpectedCriteria(Split(response, <<"\n">>))

\* a line numbered "10. " yields the text after the marker
C7_Witness ==
    /\ CriteriaReturned
    /\ StartsWith(response, <<"1", "0", ".", " ">>)
    /\ criteria_list = << <<"a">> >>

\* C9 as stated: no two positions of the returned list hold the same criterion
\* (here for the lists whose criteria start with a letter).
C9_NoDuplicates ==
    (CriteriaReturned /\ \A i \in 1..Len(criteria_list) : Head(criteria_list[i]) = "a") =>
        \A i, j \in 1..Len(criteria_list) : i # j => criteria_list[i] # criteria_list[j]

\* C9 amended: no entry of the returned list is empty or starts with '#', and
\* every kept line yields its own entry, so a line repeated verbatim appears
\* as many times as the response holds it.
C9_NoEmptyNoHeading ==
    CriteriaReturned =>
        /\ \A i \in 1..Len(criteria_list) :
              criteria_list[i] # <<>> /\ Head(criteria_list[i]) # "#"
        /\ LET lines == Split(response, <<"\n">>)
           IN  Len(criteria_list) =
                 Cardinality({k \in 1..Len(lines) : Strip(lines[k]) # <<>>
                                                    /\ Remainder(lines[k]) # <<>>
                                                    /\ Head(Remainder(lines[k])) # "#"})

\* a repeated line appears twice, next to a dropped heading
C9_Witness ==
    /\ CriteriaReturned
    /\ Len(criteria_list) = 2
    /\ criteria_list[1] = criteria_list[2]
    /\ Len(Split(response, <<"\n">>)) = 2

----------------------------------------------------------------------------
(* Properties of extract_text_from_file *)

ExtractExited == pc \in {"extract_returned", "extract_raised"}

\* C8: on every exit path the temporary file is gone and the stream of the
\* upload stands at its start again.
C8_CleanupOnEveryExit ==
    ExtractExited => temp_files = {} /\ stream_pos[1] = 0

----------------------------------------------------------------------------
(* Properties of score_resumes *)

BatchDone == pc = "batch_done"

\* C3: once the request is accepted, a resume whose extraction or scoring
\* fails does not stop the others: every resume is processed and the row of
\* every scored candidate is in the report.
C3_FailureIsolated ==
    (BatchDone /\ http.status # 400) =>
        /\ idx > Len(uploads)
        /\ Len(http.rows) = Len(results)

\* out holds the rows of in by decreasing total, rows of equal total in the
\* order they have in in
StableDescending(in, out) ==
    /\ Len(out) = Len(in)
    /\ \E p \in Permutations(1..Len(in)) :
          /\ \A i \in 1..Len(in) : out[i] = in[p[i]]
          /\ \A i, j \in 1..Len(in) :
                i < j => \/ out[i].total > out[j].total
                         \/ out[i].total = out[j].total /\ p[i] < p[j]

\* C4: the report is the stable descending sort of the candidate rows on
\* their total score.
C4_StableDescendingSort ==
    (BatchDone /\ http.status = 200) => StableDescending(results, http.rows)

\* three candidates, the first below two different candidates that tie
C4_Witness ==
    /\ BatchDone /\ http.status = 200
    /\ Len(results) = 3
    /\ results[1].total < results[2].total
    /\ results[2].total = results[3].total
    /\ results[2] # results[3]
    /\ http.rows = <<results[2], results[3], results[1]>>

RECURSIVE SumOfColumns(_, _)
SumOfColumns(d, keys) ==
    IF keys = {} THEN 0
    ELSE LET k == CHOOSE x \in keys : TRUE
         IN  d[k] + SumOfColumns(d, keys \ {k})

\* C10: every candidate row holds one score entry per criterion, so that its
\* total is the sum of the entries it holds.
C10_RowHoldsEveryScore ==
    \A k \in 1..Len(results) :
        /\ Cardinality(DOMAIN results[k].cols) = Len(criteria)
        /\ results[k].total = SumOfColumns(results[k].cols, DOMAIN results[k].cols)

====
